---------------------------- MODULE Spec2Model ----------------------------
(***************************************************************************)
(* A model of the discrete-event simulation kernel of pysim                *)
(* (src/pysim/sim/simulator.py): the EventQueue (a heapq binary heap with  *)
(* lazy deletion), the Kernel's scheduling primitives and run loop         *)
(* (Kernel.build_runner), and the run_simulation driver.                   *)
(*                                                                         *)
(* Python values are represented as follows.  An optional number or tuple  *)
(* is a sequence: None is << >> and a present value v is <<v>>; a queue    *)
(* payload is a non-empty tuple or None.  Enumerations and handler         *)
(* references are strings, with "None" for an absent one.  Model time is   *)
(* an integer.                                                             *)
(***************************************************************************)
EXTENDS Integers, Sequences, FiniteSets, TLC

\* ------------------------------------------------------------- bounds ----
\* The number of events one run may schedule.
MaxEvents == 2
\* The number of entries pushed when the queue is used on its own.
MaxPush == 3
\* The largest delay passed to schedule and the largest time passed to push.
MaxDelay == 1
\* The largest reading of the wall clock, in ticks since the run started.
MaxReal == 1

\* ------------------------------------------------------------- values ----
None == << >>
Some(v) == <<v>>

\* Delays passed to Simulator.schedule: the code accepts any number.
Delays == (0 - 1)..MaxDelay
\* Times passed to EventQueue.push when the queue is used on its own.
Times == 0..MaxDelay
\* Handlers of the model built on the kernel (user content).
Handlers == {"on_event"}
\* What a caller may pass as handler: a handler, None, or an object that is
\* not callable (the type hint is not enforced).
HandlerValues == Handlers \cup {"None", "not_callable"}
\* An args value that is not iterable (an int, say), and what a caller may
\* pass as args: the empty tuple or that value.
NotIterable == <<"int">>
ArgValues == {<< >>, NotIterable}
\* The event ids a caller may pass to cancel: every id the run can issue and
\* one that is never issued.
Ids == 0..MaxEvents
\* The ids passed to EventQueue.cancel when the queue is used on its own.
QueueIds == 0..MaxPush
\* Messages passed to stop().
Messages == {"", "done"}
\* Payloads passed to EventQueue.push when the queue is used on its own.
Payloads == {<<"task">>, None}
\* The argument tuples of the initializer.
InitArgs == {<< >>, <<"a", "b", "c">>}

VARIABLES
    \* EventQueue
    event_list,         \* _event_list: the heap, a sequence of entries
    event_dict,         \* _event_dict: the ids mapped to their heap entry
    counter,            \* _counter: the next sequence number
    \* Kernel
    sim_time,           \* _sim_time
    max_sim_time,       \* _max_sim_time
    max_real_time,      \* _max_real_time
    max_num_events,     \* _max_num_events
    debug,              \* _debug
    user_stop,          \* _user_stop
    stop_reason,        \* stop_reason
    num_events_served,  \* _num_events_served
    lhandler,           \* lhandler
    finalize,           \* _finalize: TRUE when a finalizer is configured
    initializer_args,   \* _initializer_args
    \* the generator made by build_runner and its driver
    runner_debug,       \* the debug argument of build_runner
    pc,                 \* where the run is
    cur,                \* the (t, event_id, item) popped in this iteration
    fin_ret,            \* the local fin_ret of build_runner
    result,             \* what the run delivered to its driver
    error,              \* the exception that ended the run
    call_ret,           \* what the last facade or queue call returned
    \* environment
    real_elapsed,       \* the last reading of real_time_elapsed
    \* history
    popped,             \* the entries EventQueue.pop returned, each with
                        \* the value of the counter at the call
    invoked,            \* the events whose handler the run loop invoked
    cancelled,          \* the ids whose cancellation removed an entry
    negative_delay,     \* a schedule call was given a negative delay
    stop_by,            \* who called stop(): "None", "initializer", "handler"
    stop_msg            \* the message of the last stop() call, if any

queue_vars == <<event_list, event_dict, counter>>
config_vars == <<max_sim_time, max_real_time, max_num_events, finalize,
                 initializer_args, runner_debug>>
flag_vars == <<user_stop, stop_reason>>
history_vars == <<popped, invoked, cancelled, negative_delay, stop_by,
                  stop_msg>>
vars == <<event_list, event_dict, counter, sim_time, max_sim_time,
          max_real_time, max_num_events, debug, user_stop, stop_reason,
          num_events_served, lhandler, finalize, initializer_args,
          runner_debug, pc, cur, fin_ret, result, error, call_ret,
          real_elapsed, popped, invoked, cancelled, negative_delay, stop_by,
          stop_msg>>

\* -------------------------------------------------------------- heapq ----
\* The order of two entries [time, number, task]: Python compares the lists
\* element by element; the numbers are unique, so the task is never reached.
LessByTimeOnly(a, b) == a.time < b.time

Less(a, b) ==
    \/ a.time < b.time
    \/ a.time = b.time /\ a.number < b.number

RECURSIVE SiftDownLoop(_, _, _, _)
SiftDownLoop(heap, startpos, pos, newitem) ==
    IF pos > startpos
    THEN LET parentpos == pos \div 2
             parent == heap[parentpos]
         IN  IF Less(newitem, parent)
             THEN SiftDownLoop([heap EXCEPT ![pos] = parent], startpos,
                               parentpos, newitem)
             ELSE [heap EXCEPT ![pos] = newitem]
    ELSE [heap EXCEPT ![pos] = newitem]

\* heapq._siftdown
SiftDown(heap, startpos, pos) == SiftDownLoop(heap, startpos, pos, heap[pos])

RECURSIVE SiftUpLoop(_, _, _, _)
SiftUpLoop(heap, startpos, pos, newitem) ==
    LET childpos == 2 * pos
        rightpos == childpos + 1
    IN  IF childpos <= Len(heap)
        THEN LET c == IF /\ rightpos <= Len(heap)
                         /\ ~Less(heap[childpos], heap[rightpos])
                      THEN rightpos
                      ELSE childpos
             IN  SiftUpLoop([heap EXCEPT ![pos] = heap[c]], startpos, c,
                            newitem)
        ELSE SiftDown([heap EXCEPT ![pos] = newitem], startpos, pos)

\* heapq._siftup
SiftUp(heap, pos) == SiftUpLoop(heap, pos, pos, heap[pos])

\* heapq.heappush
HeapPush(heap, item) == SiftDown(Append(heap, item), 1, Len(heap) + 1)

\* heapq.heappop of a non-empty heap: the item returned and the heap left
HeapPop(heap) ==
    LET lastelt == heap[Len(heap)]
        rest == SubSeq(heap, 1, Len(heap) - 1)
    IN  IF rest # << >>
        THEN [item |-> rest[1], heap |-> SiftUp([rest EXCEPT ![1] = lastelt], 1)]
        ELSE [item |-> lastelt, heap |-> rest]

\* --------------------------------------------------------- EventQueue ----
\* EventQueue.empty
Empty(dict) == Cardinality(dict) = 0

\* EventQueue.__len__
QLen(dict) == Cardinality(dict)

\* EventQueue.push: the queue after the call and the number returned
Push(list, dict, cnt, time, task) ==
    LET number == cnt
        event == [time |-> time, number |-> number, task |-> task]
    IN  [list |-> HeapPush(list, event),
         dict |-> dict \cup {number},
         counter |-> cnt + 1,
         ret |-> number]

\* The heappop calls of EventQueue.pop: entries are taken off the heap until
\* one has a task; heappop of an empty list raises IndexError.
RECURSIVE PopLive(_)
PopLive(list) ==
    IF list = << >>
    THEN [err |-> "IndexError", list |-> list, item |-> None]
    ELSE LET p == HeapPop(list)
         IN  IF p.item.task = None
             THEN PopLive(p.heap)
             ELSE [err |-> "None", list |-> p.heap, item |-> Some(p.item)]

\* EventQueue.pop: the queue after the call, the entry returned and the
\* exception raised ("None" when the call returns)
Pop(list, dict) ==
    IF Empty(dict)
    THEN [err |-> "KeyError", list |-> list, dict |-> dict, item |-> None]
    ELSE LET p == PopLive(list)
         IN  IF p.err # "None"
             THEN [err |-> p.err, list |-> p.list, dict |-> dict, item |-> None]
             ELSE IF p.item[1].number \notin dict
             THEN [err |-> "KeyError", list |-> p.list, dict |-> dict,
                   item |-> None]
             ELSE [err |-> "None", list |-> p.list,
                   dict |-> dict \ {p.item[1].number}, item |-> p.item]

QueueCancelKeepsTask(list, dict, number) ==
    [list |-> list, dict |-> dict \ {number}]

QueueCancelKeepsMapping(list, dict, number) ==
    [list |-> [i \in DOMAIN list |->
                  IF list[i].number = number
                  THEN [list[i] EXCEPT !.task = None]
                  ELSE list[i]],
     dict |-> dict]

\* EventQueue.cancel: the mapping loses the number and the entry, which the
\* heap still holds, loses its task
QueueCancel(list, dict, number) ==
    IF number \in dict
    THEN [list |-> [i \in DOMAIN list |->
                       IF list[i].number = number
                       THEN [list[i] EXCEPT !.task = None]
                       ELSE list[i]],
          dict |-> dict \ {number}]
    ELSE [list |-> list, dict |-> dict]

\* EventQueue.clear
QueueClear == [list |-> << >>, dict |-> {}]

\* --------------------------------------------------------------- Init ----
\* Kernel.__init__ followed by the setters build_simulation calls, or a
\* Kernel configured directly and run through build_runner(debug).
Init ==
    /\ event_list = << >>
    /\ event_dict = {}
    /\ counter = 0
    /\ sim_time = 0
    /\ max_sim_time \in {None, Some(MaxDelay)}
    /\ max_real_time \in {None, Some(0)}
    /\ max_num_events \in {None, Some(1)}
    /\ \/ debug \in BOOLEAN /\ runner_debug = FALSE
       \/ debug = FALSE /\ runner_debug = TRUE
    /\ user_stop = FALSE
    /\ stop_reason = "None"
    /\ num_events_served = None
    /\ lhandler = "None"
    /\ finalize \in BOOLEAN
    /\ initializer_args \in InitArgs
    /\ pc = "ready"
    /\ cur = None
    /\ fin_ret = "unbound"
    /\ result = None
    /\ error = "None"
    /\ call_ret = None
    /\ real_elapsed = 0
    /\ popped = << >>
    /\ invoked = << >>
    /\ cancelled = {}
    /\ negative_delay = FALSE
    /\ stop_by = "None"
    /\ stop_msg = None

\* ------------------------------------------------------------- Kernel ----
\* What a facade call returned to the handler that made it.
Returned(op, arg, val) == [op |-> op, arg |-> arg, val |-> val]

DueTimeFromZero(now, delay) == delay

\* The due time Kernel.schedule gives an event
DueTime(now, delay) == now + delay

\* Kernel.schedule with a delay that is not None
KernelSchedule(delay, handler, args, msg) ==
    LET q == Push(event_list, event_dict, counter, DueTime(sim_time, delay),
                  <<handler, args, msg>>)
    IN  /\ event_list' = q.list
        /\ event_dict' = q.dict
        /\ counter' = q.counter
        /\ call_ret' = Returned("schedule", None, Some(q.ret))

\* Kernel.schedule with delay None: nothing is pushed, None is returned
KernelScheduleNone ==
    /\ call_ret' = Returned("schedule", None, None)
    /\ UNCHANGED queue_vars

KernelCancelUnchecked(event_id) ==
    LET q == QueueCancel(event_list, event_dict, event_id)
    IN  /\ event_list' = q.list
        /\ event_dict' = q.dict
        /\ counter' = counter
        /\ call_ret' = Returned("cancel", Some(event_id), Some(1))

\* Kernel.cancel
KernelCancel(event_id) ==
    IF event_id \in event_dict
    THEN LET q == QueueCancel(event_list, event_dict, event_id)
         IN  /\ event_list' = q.list
             /\ event_dict' = q.dict
             /\ counter' = counter
             /\ call_ret' = Returned("cancel", Some(event_id), Some(1))
    ELSE /\ UNCHANGED queue_vars
         /\ call_ret' = Returned("cancel", Some(event_id), Some(0))

\* Kernel.stop: the message is dropped
KernelStop(msg) ==
    /\ stop_reason' = "STOPPED"
    /\ user_stop' = TRUE
    /\ call_ret' = Returned("stop", None, None)

StopConditionsWithoutUserStop(elapsed) ==
    IF max_sim_time # None /\ sim_time > max_sim_time[1]
    THEN [stop |-> TRUE, reason |-> "REACHED_SIM_TIME_LIMIT"]
    ELSE IF max_real_time # None /\ elapsed > max_real_time[1]
    THEN [stop |-> TRUE, reason |-> "REACHED_REAL_TIME_LIMIT"]
    ELSE [stop |-> FALSE, reason |-> stop_reason]

\* Kernel.stop_conditions, given the reading of real_time_elapsed it would
\* take: whether the loop must stop and the stop_reason it leaves
StopConditions(elapsed) ==
    IF max_sim_time # None /\ sim_time > max_sim_time[1]
    THEN [stop |-> TRUE, reason |-> "REACHED_SIM_TIME_LIMIT"]
    ELSE IF max_real_time # None /\ elapsed > max_real_time[1]
    THEN [stop |-> TRUE, reason |-> "REACHED_REAL_TIME_LIMIT"]
    ELSE IF user_stop
    THEN [stop |-> TRUE, reason |-> stop_reason]
    ELSE [stop |-> FALSE, reason |-> stop_reason]

\* The readings real_time_elapsed can give: the wall clock never goes back,
\* and it is read only when a real-time ceiling is configured.
Readings ==
    IF max_sim_time # None /\ sim_time > max_sim_time[1] THEN {real_elapsed}
    ELSE IF max_real_time = None THEN {real_elapsed}
    ELSE real_elapsed..MaxReal

FinalStatsAtTimeZero ==
    [num_events_processed |-> num_events_served,
     sim_time |-> Some(0),
     exit_reason |-> stop_reason,
     stop_message |-> initializer_args[3],
     last_handler |-> lhandler,
     next_handler |-> "None"]

\* ExecutionStats as build_runner's yield makes it (time_elapsed, a wall
\* clock reading, is left out)
FinalStats ==
    [num_events_processed |-> num_events_served,
     sim_time |-> Some(sim_time),
     exit_reason |-> stop_reason,
     stop_message |-> initializer_args[3],
     last_handler |-> lhandler,
     next_handler |-> "None"]

\* ------------------------------------------------- Simulator (facade) ----
\* Handler code runs between its invocation and its return; the initializer
\* is such code too.
InUserCode == pc \in {"initializer", "handler"}

kernel_rest == <<sim_time, max_sim_time, max_real_time, max_num_events, debug,
                 num_events_served, lhandler, finalize, initializer_args,
                 runner_debug, pc, cur, fin_ret, result, error, real_elapsed,
                 popped, invoked>>

\* Simulator.schedule
SimSchedule(delay, handler) ==
    /\ InUserCode
    /\ counter < MaxEvents
    /\ KernelSchedule(delay, handler, << >>, "")
    /\ negative_delay' = (negative_delay \/ delay < 0)
    /\ UNCHANGED <<kernel_rest, flag_vars, cancelled, stop_by, stop_msg>>

\* Simulator.schedule with any handler and args the language lets through
SimScheduleWith(delay, handler, args) ==
    /\ InUserCode
    /\ counter < MaxEvents
    /\ KernelSchedule(delay, handler, args, "")
    /\ negative_delay' = (negative_delay \/ delay < 0)
    /\ UNCHANGED <<kernel_rest, flag_vars, cancelled, stop_by, stop_msg>>

\* Simulator.schedule with delay None
SimScheduleNone ==
    /\ InUserCode
    /\ KernelScheduleNone
    /\ UNCHANGED <<kernel_rest, flag_vars, cancelled, negative_delay, stop_by,
                   stop_msg>>

\* Simulator.call
SimCall(handler) ==
    /\ InUserCode
    /\ counter < MaxEvents
    /\ KernelSchedule(0, handler, << >>, "")
    /\ UNCHANGED <<kernel_rest, flag_vars, cancelled, negative_delay, stop_by,
                   stop_msg>>

\* Simulator.call with any handler and args the language lets through
SimCallWith(handler, args) ==
    /\ InUserCode
    /\ counter < MaxEvents
    /\ KernelSchedule(0, handler, args, "")
    /\ UNCHANGED <<kernel_rest, flag_vars, cancelled, negative_delay, stop_by,
                   stop_msg>>

\* Simulator.cancel
SimCancel(event_id) ==
    /\ InUserCode
    /\ KernelCancel(event_id)
    /\ cancelled' = IF call_ret'.val = Some(1)
                    THEN cancelled \cup {event_id}
                    ELSE cancelled
    /\ UNCHANGED <<kernel_rest, flag_vars, negative_delay, stop_by, stop_msg>>

\* Simulator.stop
SimStop(msg) ==
    /\ InUserCode
    /\ KernelStop(msg)
    /\ stop_by' = IF stop_by = "None" THEN pc ELSE stop_by
    /\ stop_msg' = Some(msg)
    /\ UNCHANGED <<queue_vars, kernel_rest, cancelled, negative_delay>>

\* ------------------------------------------------ Kernel.build_runner ----
\* The first next() on the generator: build_runner up to the call of the
\* initializer.
Start ==
    /\ pc = "ready"
    /\ debug' = runner_debug
    /\ num_events_served' = Some(0)
    /\ pc' = "initializer"
    /\ UNCHANGED <<queue_vars, sim_time, config_vars, flag_vars, lhandler, cur,
                   fin_ret, result, error, call_ret, real_elapsed,
                   history_vars>>

\* The initializer returns: the queue is looked at once before the loop.
InitializerReturn ==
    /\ pc = "initializer"
    /\ stop_reason' = IF Empty(event_dict) THEN "NO_MORE_EVENTS" ELSE stop_reason
    /\ call_ret' = None
    /\ pc' = "loop"
    /\ UNCHANGED <<queue_vars, sim_time, config_vars, debug, user_stop,
                   num_events_served, lhandler, cur, fin_ret, result, error,
                   real_elapsed, history_vars>>

\* One evaluation of the loop condition that ends the loop: the queue is
\* empty, or it is not and stop_conditions() is true.
LoopExit ==
    /\ pc = "loop"
    /\ \E elapsed \in Readings :
          LET c == StopConditions(elapsed)
          IN  /\ Empty(event_dict) \/ c.stop
              /\ stop_reason' = IF Empty(event_dict) THEN stop_reason ELSE c.reason
              /\ real_elapsed' = IF Empty(event_dict) THEN real_elapsed ELSE elapsed
    /\ pc' = "finalize"
    /\ UNCHANGED <<queue_vars, sim_time, config_vars, debug, user_stop,
                   num_events_served, lhandler, cur, fin_ret, result, error,
                   call_ret, history_vars>>

\* handler(sim, *args) raises TypeError when args cannot be unpacked or
\* handler cannot be called.
IsIterable(args) == args # NotIterable
IsInvokable(handler) == handler \in Handlers

\* One iteration of the loop up to the handler: the condition holds, the
\* next event is popped and the clock is set; then the handler is called.
\* In debug mode the user-stop flag is set and the interrupted result is
\* built instead: ExecutionStats is called without num_events_processed, a
\* field of the dataclass that has no default, which raises TypeError.
LoopPop ==
    /\ pc = "loop"
    /\ ~Empty(event_dict)
    /\ \E elapsed \in Readings :
          /\ ~StopConditions(elapsed).stop
          /\ real_elapsed' = elapsed
    /\ LET p == Pop(event_list, event_dict)
       IN  IF p.err # "None"
           THEN /\ event_list' = p.list
                /\ event_dict' = p.dict
                /\ error' = p.err
                /\ pc' = "raised"
                /\ UNCHANGED <<sim_time, user_stop, cur, result, popped,
                               invoked>>
           ELSE LET e == p.item[1]
                IN  /\ event_list' = p.list
                    /\ event_dict' = p.dict
                    /\ popped' = Append(popped, [entry |-> e, at |-> counter])
                    /\ sim_time' = e.time
                    /\ cur' = Some(e)
                    /\ IF debug
                       THEN /\ user_stop' = TRUE
                            /\ error' = "TypeError"
                            /\ pc' = "raised"
                            /\ UNCHANGED invoked
                       ELSE IF IsIterable(e.task[2]) /\ IsInvokable(e.task[1])
                       THEN /\ invoked' = Append(invoked, [entry |-> e, at |-> counter])
                            /\ pc' = "handler"
                            /\ UNCHANGED <<user_stop, error>>
                       ELSE /\ error' = "TypeError"
                            /\ pc' = "raised"
                            /\ UNCHANGED <<user_stop, invoked>>
                    /\ UNCHANGED result
    /\ UNCHANGED <<counter, config_vars, debug, stop_reason, num_events_served,
                   lhandler, fin_ret, call_ret, cancelled, negative_delay,
                   stop_by, stop_msg>>

\* The handler returns: it is counted and recorded as the last handler.
HandlerReturn ==
    /\ pc = "handler"
    /\ num_events_served' = Some(num_events_served[1] + 1)
    /\ lhandler' = cur[1].task[1]
    /\ call_ret' = None
    /\ pc' = "loop"
    /\ UNCHANGED <<queue_vars, sim_time, config_vars, debug, flag_vars, cur,
                   fin_ret, result, error, real_elapsed, history_vars>>

FinishWithoutFinalizer ==
    /\ pc = "finalize"
    /\ fin_ret' = fin_ret
    /\ IF Len(initializer_args) < 3
       THEN /\ error' = "IndexError"
            /\ pc' = "raised"
            /\ UNCHANGED result
       ELSE IF fin_ret' = "unbound"
       THEN /\ error' = "UnboundLocalError"
            /\ pc' = "raised"
            /\ UNCHANGED result
       ELSE /\ result' = Some([stats |-> FinalStats, fin_ret |-> fin_ret'])
            /\ pc' = "yielded"
            /\ UNCHANGED error
    /\ UNCHANGED <<queue_vars, sim_time, config_vars, debug, flag_vars,
                   num_events_served, lhandler, cur, call_ret, real_elapsed,
                   history_vars>>

\* After the loop: the finalizer, if one is set, and the yield of the
\* result.  Building the result reads _initializer_args[2] and then fin_ret.
Finish ==
    /\ pc = "finalize"
    /\ fin_ret' = IF finalize THEN "fin_result" ELSE fin_ret
    /\ IF Len(initializer_args) < 3
       THEN /\ error' = "IndexError"
            /\ pc' = "raised"
            /\ UNCHANGED result
       ELSE IF fin_ret' = "unbound"
       THEN /\ error' = "UnboundLocalError"
            /\ pc' = "raised"
            /\ UNCHANGED result
       ELSE /\ result' = Some([stats |-> FinalStats, fin_ret |-> fin_ret'])
            /\ pc' = "yielded"
            /\ UNCHANGED error
    /\ UNCHANGED <<queue_vars, sim_time, config_vars, debug, flag_vars,
                   num_events_served, lhandler, cur, call_ret, real_elapsed,
                   history_vars>>

\* ----------------------------------------------------- run_simulation ----
\* The driver asks for the next result after one was yielded: the generator
\* ends and the driver returns the result it holds.  (The driver's other
\* exit, RuntimeError when the generator ends without a result, is never
\* taken: the generator yields or raises.)
DriverReturn ==
    /\ pc = "yielded"
    /\ pc' = "done"
    /\ UNCHANGED <<queue_vars, sim_time, config_vars, debug, flag_vars,
                   num_events_served, lhandler, cur, fin_ret, result, error,
                   call_ret, real_elapsed, history_vars>>

Next ==
    \/ Start
    \/ \E d \in Delays, h \in Handlers : SimSchedule(d, h)
    \/ SimScheduleNone
    \/ \E h \in Handlers : SimCall(h)
    \/ \E id \in Ids : SimCancel(id)
    \/ \E m \in Messages : SimStop(m)
    \/ InitializerReturn
    \/ LoopExit
    \/ LoopPop
    \/ HandlerReturn
    \/ Finish
    \/ DriverReturn

Spec == Init /\ [][Next]_vars

\* ------------------------------------------- EventQueue on its own ----
\* A caller that holds an EventQueue and calls its methods in any order,
\* catching what pop raises.
kernel_vars == <<sim_time, config_vars, debug, flag_vars, num_events_served,
                 lhandler, pc, cur, fin_ret, result, real_elapsed, invoked,
                 cancelled, negative_delay, stop_by, stop_msg>>

\* A Kernel as build_simulation leaves it with every option at its default;
\* only its queue is used.
InitQueue ==
    /\ Init
    /\ max_sim_time = None
    /\ max_real_time = None
    /\ max_num_events = None
    /\ debug = FALSE
    /\ runner_debug = FALSE
    /\ finalize = FALSE
    /\ initializer_args = << >>

\* EventQueue.push
QPush(time, task) ==
    /\ counter < MaxPush
    /\ LET q == Push(event_list, event_dict, counter, time, task)
       IN  /\ event_list' = q.list
           /\ event_dict' = q.dict
           /\ counter' = q.counter
           /\ call_ret' = Returned("push", None, Some(q.ret))
    /\ error' = "None"
    /\ UNCHANGED <<kernel_vars, popped>>

\* EventQueue.pop
QPop ==
    /\ LET p == Pop(event_list, event_dict)
       IN  /\ event_list' = p.list
           /\ event_dict' = p.dict
           /\ error' = p.err
           /\ call_ret' = Returned("pop", None, p.item)
           /\ popped' = IF p.err = "None"
                        THEN Append(popped, [entry |-> p.item[1], at |-> counter])
                        ELSE popped
    /\ UNCHANGED <<kernel_vars, counter>>

\* EventQueue.cancel: the entry the mapping held is returned (it is named
\* here by its number: the mapping may hold an entry the heap has lost), or
\* None
QCancel(number) ==
    /\ LET q == QueueCancel(event_list, event_dict, number)
       IN  /\ event_list' = q.list
           /\ event_dict' = q.dict
           /\ call_ret' = Returned("cancel", Some(number),
                                   IF number \in event_dict
                                   THEN Some(number)
                                   ELSE None)
    /\ error' = "None"
    /\ UNCHANGED <<kernel_vars, counter, popped>>

\* EventQueue.clear
QClear ==
    /\ event_list' = QueueClear.list
    /\ event_dict' = QueueClear.dict
    /\ call_ret' = Returned("clear", None, None)
    /\ error' = "None"
    /\ UNCHANGED <<kernel_vars, counter, popped>>

NextQueue ==
    \/ \E t \in Times, task \in Payloads : QPush(t, task)
    \/ QPop
    \/ \E n \in QueueIds : QCancel(n)
    \/ QClear

SpecQueue == InitQueue /\ [][NextQueue]_vars

\* ------------------------------------------------ unchecked arguments ----
\* A run built by build_simulation with a finalizer, three initializer
\* arguments and no threshold, whose initializer and handlers call schedule
\* and call with any handler and args.
InitInputs ==
    /\ Init
    /\ max_sim_time = None
    /\ max_real_time = None
    /\ max_num_events = None
    /\ debug = FALSE
    /\ runner_debug = FALSE
    /\ finalize = TRUE
    /\ initializer_args = <<"a", "b", "c">>

NextInputs ==
    \/ Start
    \/ \E d \in Times, h \in HandlerValues, a \in ArgValues :
          SimScheduleWith(d, h, a)
    \/ \E h \in HandlerValues, a \in ArgValues : SimCallWith(h, a)
    \/ InitializerReturn
    \/ LoopExit
    \/ LoopPop
    \/ HandlerReturn
    \/ Finish
    \/ DriverReturn

SpecInputs == InitInputs /\ [][NextInputs]_vars

\* ------------------------------------------------------------- claims ----
\* The pair (time, number) of e comes before that of f.
Before(e, f) == e.time < f.time \/ (e.time = f.time /\ e.number < f.number)

\* The run delivered a result to its driver.
HasResult == pc \in {"yielded", "done"}

\* The run loop was left through its condition.
LoopExited == pc \in {"finalize", "yielded", "done"}

\* The ExecutionStats of the result delivered.
Stats == result[1].stats

\* Neither the sim-time ceiling nor the real-time ceiling is exceeded.
NoCeilingExceeded ==
    /\ ~(max_sim_time # None /\ sim_time > max_sim_time[1])
    /\ ~(max_real_time # None /\ real_elapsed > max_real_time[1])

\* No stop threshold is configured.
NoThresholds ==
    max_sim_time = None /\ max_real_time = None /\ max_num_events = None

\* C1: as long as no schedule call was given a negative delay, the handlers
\* invoked so far were invoked in non-decreasing due time and, at equal due
\* times, in the order their events were scheduled (increasing id), events
\* scheduled by handlers during the run included.
C1_HandlersInOrder ==
    ~negative_delay =>
        \A i, j \in DOMAIN invoked :
            i < j => Before(invoked[i].entry, invoked[j].entry)

\* C1 witness: two handlers ran at the same due time, the second for an event
\* that the first one's handler scheduled with delay 0.
C1_Witness ==
    /\ ~negative_delay
    /\ Len(invoked) = 2
    /\ invoked[1].entry.time = invoked[2].entry.time
    /\ invoked[2].entry.number >= invoked[1].at

\* C2: of two entries that pop returned, the one returned first comes first
\* by (time, insertion number) whenever the other was already pushed when the
\* first was popped: pops after a series of pushes come out in non-decreasing
\* time, equal times in insertion order.
C2_PopsInOrder ==
    \A i, j \in DOMAIN popped :
        (i < j /\ popped[j].entry.number < popped[i].at)
            => Before(popped[i].entry, popped[j].entry)

\* C2 witness: three pushes, then three pops; two entries of equal time came
\* out in insertion order, and an entry pushed last came out first.
C2_Witness ==
    /\ Len(popped) = 3
    /\ \A i \in 1..3 : popped[i].at = 3
    /\ popped[1].entry.number = 2
    /\ popped[2].entry.time = popped[3].entry.time
    /\ popped[2].entry.number < popped[3].entry.number

\* C3 (as claimed): with max_sim_time = M no handler of an event due after M
\* is invoked.
C3_NoHandlerPastLimit ==
    max_sim_time # None =>
        \A i \in DOMAIN invoked : invoked[i].entry.time <= max_sim_time[1]

\* C4 (as claimed): a run without thresholds and without stop() that
\* processed at least one event and drained the queue reports NO_MORE_EVENTS.
\* It is stated for the runs whose delays were all non-negative, the ones
\* the claim's example is about.
C4_DrainedRunReportsNoMoreEvents ==
    (/\ HasResult
     /\ NoThresholds
     /\ ~negative_delay
     /\ stop_by = "None"
     /\ num_events_served # None /\ num_events_served[1] >= 1
     /\ Empty(event_dict))
        => Stats.exit_reason = "NO_MORE_EVENTS"

\* C5 (as claimed): schedule with a negative delay raises SchedulingInPast
\* and changes neither the queue nor the clock.
C5_NegativeDelayRejected ==
    [][\A d \in Delays, h \in Handlers :
          (d < 0 /\ SimSchedule(d, h))
              => /\ error' = "SchedulingInPastError"
                 /\ UNCHANGED <<event_list, event_dict, counter, sim_time>>]_vars

\* C6 (as claimed): the clock is never negative and never decreases,
\* whatever delays are passed to schedule.
C6_ClockMonotone == [][sim_time' >= sim_time /\ sim_time' >= 0]_vars

\* C7: cancelling a live event takes exactly one off len() at once, and no
\* event cancelled while queued is ever returned by pop or has its handler
\* invoked.
C7_CancelRemovesLiveEvent ==
    /\ [][\A id \in Ids :
             (SimCancel(id) /\ id \in event_dict)
                 => /\ Cardinality(event_dict') = Cardinality(event_dict) - 1
                    /\ id \notin event_dict'
                    /\ call_ret'.val = Some(1)]_vars
    /\ [](\A i \in DOMAIN popped : popped[i].entry.number \notin cancelled)
    /\ [](\A i \in DOMAIN invoked : invoked[i].entry.number \notin cancelled)

\* C7 witness: the run loop has emptied the heap, an event was cancelled
\* while queued and the handler of an event scheduled after it was invoked.
C7_Witness ==
    /\ pc = "finalize"
    /\ event_list = << >>
    /\ \E c \in cancelled, i \in DOMAIN invoked : invoked[i].entry.number > c

\* C8: cancel of an id that is not live (unknown, cancelled before, or popped
\* before, the running event included) returns 0, raises nothing and leaves
\* the queue, the clock and the stop flags as they were.
C8_CancelOfDeadIdIsNoOp ==
    [][\A id \in Ids :
          (SimCancel(id) /\ id \notin event_dict)
              => /\ call_ret'.val = Some(0)
                 /\ UNCHANGED <<event_list, event_dict, counter, sim_time,
                                user_stop, stop_reason, error, pc>>]_vars

\* C8 witness: a handler cancelled the event it is running for and got 0.
C8_Witness ==
    /\ pc = "handler"
    /\ call_ret = Returned("cancel", Some(cur[1].number), Some(0))

\* C9: when the loop of a run without thresholds and without stop() is
\* left, the served-event counter is the number of handler invocations, which
\* is the number of events scheduled less those cancelled while queued, and
\* the clock is the due time of the last event invoked; the result, once
\* delivered, carries that count and that time.
C9_ResultCountsInvocations ==
    (LoopExited /\ NoThresholds /\ stop_by = "None")
        => /\ num_events_served = Some(Len(invoked))
           /\ Len(invoked) = counter - Cardinality(cancelled)
           /\ invoked # << >> => sim_time = invoked[Len(invoked)].entry.time
           /\ HasResult => Stats.num_events_processed = Some(Len(invoked))
           /\ (HasResult /\ invoked # << >>)
                 => Stats.sim_time = Some(invoked[Len(invoked)].entry.time)

\* C9 witness: such a run ended with a result after one of its events was
\* cancelled while queued and the handler of another was invoked.
C9_Witness ==
    /\ pc = "done"
    /\ NoThresholds
    /\ stop_by = "None"
    /\ cancelled # {}
    /\ Len(invoked) >= 1

\* C10: a handler that calls stop() goes on running, no handler is invoked
\* after it, and when no ceiling is exceeded the loop is left with exit
\* reason STOPPED, which the result, once delivered, carries.
C10_StopEndsRun ==
    /\ [][/\ \A m \in Messages : SimStop(m) => pc' = pc
          /\ stop_by = "handler" => invoked' = invoked]_vars
    /\ []((LoopExited /\ stop_by = "handler" /\ NoCeilingExceeded)
             => /\ stop_reason = "STOPPED"
                /\ HasResult => Stats.exit_reason = "STOPPED")

\* C10 witness: a run ended with exit reason STOPPED after a handler called
\* stop() while a live event was queued.
C10_Witness ==
    /\ pc = "done"
    /\ stop_by = "handler"
    /\ event_dict # {}
    /\ Stats.exit_reason = "STOPPED"

\* C11 (as claimed): the stop message of the result of a run in which
\* stop(msg) was called is the msg passed to stop (the last one, if stop was
\* called more than once).
C11_StopMessageIsTheOnePassed ==
    (HasResult /\ stop_msg # None) => Stats.stop_message = stop_msg[1]


\* C12 (as claimed): a run that is not a debug run raises nothing, whatever
\* the initializer arguments and with or without a finalizer, and the result
\* its driver returns has the finalizer's value as third component if a
\* finalizer is configured and none otherwise.
C12_RunYieldsOneResult ==
    (~debug /\ ~runner_debug)
        => /\ pc # "raised"
           /\ pc = "done"
                 => /\ result # None
                    /\ result[1].fin_ret = IF finalize THEN "fin_result" ELSE "None"

\* C13 (as claimed): with max_num_events = N no more than N handlers are
\* invoked.  Runs in which an event was scheduled with a negative delay are
\* left aside, so that a violation does not rest on such an event.
C13_NoMoreThanMaxNumEvents ==
    (max_num_events # None /\ ~negative_delay)
        => Len(invoked) <= max_num_events[1]

\* C14 (as claimed): in a debug run, once the earliest live event is dequeued
\* the run is suspended with a result whose exit reason is INTERRUPTED, whose
\* next_handler is the popped handler and whose last_handler is the handler
\* executed before; the popped handler is not invoked and the finalizer is
\* not run.  Runs with a negative delay are left aside as in C13.
C14_DebugRunSuspends ==
    (debug /\ popped # << >> /\ ~negative_delay)
        => /\ pc # "raised"
           /\ result # None
           /\ Stats.exit_reason = "INTERRUPTED"
           /\ Stats.next_handler = popped[1].entry.task[1]
           /\ Stats.last_handler = lhandler
           /\ invoked = << >>
           /\ fin_ret = "unbound"


\* C16 (as claimed): every event id returned by schedule or call is greater
\* than 0, the id of the first event of a run included.  Runs with a
\* negative delay are left aside.
C16_EventIdsArePositive ==
    (/\ call_ret # None
     /\ call_ret.op = "schedule"
     /\ call_ret.val # None
     /\ ~negative_delay)
        => call_ret.val[1] > 0

\* C17 (as claimed): a run in which stop() was called and no ceiling is
\* exceeded ends with exit reason STOPPED, even when the queue is empty at
\* loop exit.
C17_StoppedOutranksNoMoreEvents ==
    (LoopExited /\ stop_by # "None" /\ NoCeilingExceeded /\ ~negative_delay)
        => stop_reason = "STOPPED"

\* C18 (as claimed): a run with max_sim_time = M that ends with the clock
\* greater than M has exit reason REACHED_SIM_TIME_LIMIT, also when the queue
\* is empty at that moment and when the user-stop flag is set.
C18_PastLimitReportsSimTimeLimit ==
    (LoopExited /\ max_sim_time # None /\ sim_time > max_sim_time[1])
        => stop_reason = "REACHED_SIM_TIME_LIMIT"


\* C19: the initializer is entered once, from the start of the run and before
\* any handler; the finalizer, if one is configured, is called once, at the
\* step that follows the loop's natural exit (queue drained or a stop
\* condition met) and after the last handler; it is never called on a debug
\* suspension nor when none is configured.
C19_InitializerAndFinalizerOnce ==
    /\ [][(pc' = "initializer" /\ pc # "initializer")
             => (pc = "ready" /\ invoked = << >>)]_vars
    /\ [][pc' = "ready" => pc = "ready"]_vars
    /\ [](invoked # << >> => pc \notin {"ready", "initializer"})
    /\ [][(pc' = "finalize" /\ pc # "finalize")
             => /\ pc = "loop"
                /\ \/ Empty(event_dict)
                   \/ \E elapsed \in Readings : StopConditions(elapsed).stop]_vars
    /\ [][fin_ret' # fin_ret
             => /\ pc = "finalize"
                /\ finalize
                /\ fin_ret = "unbound"
                /\ fin_ret' = "fin_result"]_vars
    /\ [][(pc = "finalize" /\ pc' # "finalize" /\ finalize)
             => fin_ret' = "fin_result"]_vars
    /\ [][fin_ret # "unbound"
             => (invoked' = invoked /\ pc' \notin {"initializer", "loop", "handler"})]_vars
    /\ []((debug /\ popped # << >>) => fin_ret = "unbound")
    /\ [](~finalize => fin_ret = "unbound")

\* C19 (witness): a run that invoked a handler, ran its finalizer and
\* returned its result.
C19_Witness ==
    /\ pc = "done"
    /\ finalize
    /\ fin_ret = "fin_result"
    /\ invoked # << >>

\* C20: whenever the loop is about to evaluate its condition with a
\* non-empty queue, pop returns a live event; the only error the loop raises
\* is the TypeError of the debug branch.
C20_LoopPopNeverFails ==
    /\ []((pc = "loop" /\ ~Empty(event_dict))
             => Pop(event_list, event_dict).err = "None")
    /\ [][(pc = "loop" /\ pc' = "raised")
             => (debug /\ error' = "TypeError" /\ popped' # popped)]_vars

\* C20 (witness): the loop's pop skipped the tombstone of the cancelled
\* event 0 and returned event 1, emptying the heap.
C20_Witness ==
    /\ pc = "handler"
    /\ Len(popped) = 1
    /\ popped[1].entry.number = 1
    /\ 0 \in cancelled
    /\ event_list = << >>


\* C15 (as claimed): a schedule or call whose handler is None or not
\* invokable, or whose args is not iterable, inserts no event: every entry
\* of the queue that has a task has an invokable handler and iterable args.
C15_InvalidCallInsertsNothing ==
    \A i \in DOMAIN event_list :
        event_list[i].task # None
            => /\ IsInvokable(event_list[i].task[1])
               /\ IsIterable(event_list[i].task[2])


\* C21 (as claimed): after any sequence of push, pop, cancel and clear, with
\* push taking any payload, the numbers of the mapping are exactly the
\* numbers of the heap's entries that are not tombstoned, each carried by one
\* entry, and len() is the number of those entries.
C21_MappingIsTheLiveEntries ==
    LET live == {i \in DOMAIN event_list : event_list[i].task # None}
    IN  /\ event_dict = {event_list[i].number : i \in live}
        /\ \A i, j \in live :
              event_list[i].number = event_list[j].number => i = j
        /\ QLen(event_dict) = Cardinality(live)

\* C22 (as claimed): pop raises the Empty error (KeyError) exactly when the
\* mapping holds no entry; otherwise it returns, and what it returns is the
\* earliest by (time, number) of the entries the mapping holds.
C22_PopFailsOnlyWhenEmpty ==
    [][(call_ret' # None /\ call_ret'.op = "pop")
          => IF Empty(event_dict)
             THEN error' = "KeyError"
             ELSE /\ error' = "None"
                  /\ \A i \in DOMAIN event_list :
                        event_list[i].number \in event_dict
                            => ~Before(event_list[i], call_ret'.val[1])]_vars

=============================================================================
